---------------------------- MODULE Spec2Model ----------------------------
(***************************************************************************)
(* A state-machine model of examples/contrib/funsor/ebfret.py.             *)
(*                                                                         *)
(* Two entry points are modelled:                                          *)
(*   - the script (the __main__ block followed by main(args)), and         *)
(*   - one call of model(data, num_states, vectorized).                    *)
(*                                                                         *)
(* Inputs of the script are the parsed arguments, the installed pyro       *)
(* version, the dataset and the module namespace at the point where the    *)
(* registry `models` is built.  The namespace of the file as shipped       *)
(* (ShippedGlobals) defines no name starting with "model_"; the other      *)
(* namespaces explored add model_0, model_1, model_7 (the names main       *)
(* itself refers to), so that the statements after the registry lookup     *)
(* are exercised as well.  Calls into torch/pyro are taken to return       *)
(* normally unless the script itself decides their outcome.                *)
(***************************************************************************)
EXTENDS Integers, Sequences, FiniteSets, TLC

\* ------------------------------------------------------------------ bounds
MaxSteps == 2
MaxTruncate == 2
MaxLen == 3
MaxTime == 3
MaxTraces == 2
NumStates == 2

\* ------------------------------------------------------------- python text
\* Strings that the script slices or tests by prefix are sequences of characters.
ModelPrefix == <<"m", "o", "d", "e", "l", "_">>

BadPrefix == <<"m", "o", "d", "e", "l">>

K0 == <<"0">>
K1 == <<"1">>
K7 == <<"7">>

\* str.startswith
StartsWith(s, p) == Len(s) >= Len(p) /\ SubSeq(s, 1, Len(p)) = p

\* name[len("model_"):]
DropPrefix(s) == SubSeq(s, Len(ModelPrefix) + 1, Len(s))

\* The module-level names bound before line 115 of the file as shipped.
ShippedGlobals ==
    { <<"l", "o", "g">>,
      <<"d", "i", "s", "t">>,
      <<"p", "y", "r", "o">>,
      <<"m", "o", "d", "e", "l">> }

\* Namespaces explored: the shipped one, and it extended by model_<k> functions.
Namespaces ==
    { ShippedGlobals \cup { ModelPrefix \o k : k \in ks } : ks \in SUBSET {K0, K1, K7} }

Models_WrongPrefix(ns) ==
    [ k \in { DropPrefix(n) : n \in { m \in ns : StartsWith(m, BadPrefix) } }
        |-> CHOOSE n \in ns : StartsWith(n, BadPrefix) /\ DropPrefix(n) = k ]

\* models = {name[len("model_"):]: model for name, model in globals().items()
\*           if name.startswith("model_")}
\* A function object is identified by the name it is bound to.
Models(ns) ==
    [ k \in { DropPrefix(n) : n \in { m \in ns : StartsWith(m, ModelPrefix) } }
        |-> CHOOSE n \in ns : StartsWith(n, ModelPrefix) /\ DropPrefix(n) = k ]

\* ------------------------------------------------------------------ inputs
\* argparse's result, restricted to the arguments that decide control flow.
\* truncate = 0 stands for the absent option (None); both are falsy at line 144.
ArgsSet ==
    [ model : {K0, K1, K7},
      num_steps : 0..MaxSteps,
      truncate : 0..MaxTruncate,
      print_shapes : BOOLEAN,
      jit : BOOLEAN,
      time_compilation : BOOLEAN,
      tmc : BOOLEAN,
      funsor : BOOLEAN ]

\* poly.load_data: per split, the padded time dimension and the sequence lengths.
Datasets ==
    { [ train |-> [T |-> MaxLen, lengths |-> <<MaxLen, 1>>],
        test  |-> [T |-> MaxLen, lengths |-> <<2, MaxLen>>] ],
      [ train |-> [T |-> 2, lengths |-> <<2, 2>>],
        test  |-> [T |-> MaxLen, lengths |-> <<MaxLen, 1>>] ] }

NoData == [T |-> 0, lengths |-> <<>>]

RECURSIVE SumSeq(_)
\* lengths.sum()
SumSeq(s) == IF s = <<>> THEN 0 ELSE Head(s) + SumSeq(Tail(s))

Min(a, b) == IF a <= b THEN a ELSE b

\* lengths.clamp(max=m)
Clamp(s, m) == [ i \in 1..Len(s) |-> Min(s[i], m) ]

VARIABLES
    pc,          \* position in the script / in model()
    names,       \* module namespace when `models` is built
    models,      \* the registry
    versionOk,   \* pyro.__version__.startswith("1.6.0")
    args,
    data,        \* what poly.load_data returns
    backend,     \* PYRO_BACKEND in force
    err,         \* exception that ended the run, or "None"
    model,       \* local `model` of main: [fn, partial], fn = <<>> when unbound
    seq,         \* local `sequences`, `lengths`, `num_observations`
    setup,       \* [loaded, seeded, cleared, guide]
    fad,         \* first_available_dim, 0 when unbound
    obj,         \* [cls, mpn, nElbo, nSvi, onTmc]
    step,        \* loop variable of the training loop
    nSteps,      \* number of svi.step calls made
    log,         \* logging output, in order
    evals,       \* the loss evaluations made, in order
    mcall        \* state of one model() call: [N, T, vectorized, t, z_prev, sites]

vars == << pc, names, models, versionOk, args, data, backend, err, model, seq,
           setup, fad, obj, step, nSteps, log, evals, mcall >>

mainVars == << names, models, versionOk, args, data, backend, err, model, seq,
               setup, fad, obj, step, nSteps, log, evals >>

Line(kind, i, n) == [kind |-> kind, step |-> i, nobs |-> n]

NoObj == [cls |-> "None", mpn |-> 0, nElbo |-> 0, nSvi |-> 0, onTmc |-> FALSE]

NoCall == [N |-> 0, T |-> 0, vectorized |-> FALSE, t |-> 0, z_prev |-> -1, sites |-> <<>>]

\* ------------------------------------------------------------------- Init
InitScript ==
    /\ pc = "start"
    /\ names \in Namespaces
    /\ models = Models(names)
    /\ versionOk \in BOOLEAN
    /\ args \in ArgsSet
    /\ data \in Datasets
    /\ backend = "unset"
    /\ err = "None"
    /\ model = [fn |-> <<>>, partial |-> FALSE]
    /\ seq = [T |-> 0, lengths |-> <<>>, nobs |-> 0]
    /\ setup = [loaded |-> FALSE, seeded |-> FALSE, cleared |-> FALSE, guide |-> FALSE]
    /\ fad = 0
    /\ obj = NoObj
    /\ step = 0
    /\ nSteps = 0
    /\ log = <<>>
    /\ evals = <<>>
    /\ mcall = NoCall

InitModelCall ==
    /\ pc = "m_enter"
    /\ names = ShippedGlobals
    /\ models = Models(names)
    /\ versionOk = TRUE
    /\ args = [model |-> K1, num_steps |-> 0, truncate |-> 0, print_shapes |-> FALSE,
               jit |-> FALSE, time_compilation |-> FALSE, tmc |-> FALSE, funsor |-> FALSE]
    /\ data = [train |-> NoData, test |-> NoData]
    /\ backend = "unset"
    /\ err = "None"
    /\ model = [fn |-> <<>>, partial |-> FALSE]
    /\ seq = [T |-> 0, lengths |-> <<>>, nobs |-> 0]
    /\ setup = [loaded |-> FALSE, seeded |-> FALSE, cleared |-> FALSE, guide |-> FALSE]
    /\ fad = 0
    /\ obj = NoObj
    /\ step = 0
    /\ nSteps = 0
    /\ log = <<>>
    /\ evals = <<>>
    /\ \E n \in 1..MaxTraces, T \in 0..MaxTime, v \in BOOLEAN :
          mcall = [NoCall EXCEPT !.N = n, !.T = T, !.vectorized = v]

Init == InitScript \/ InitModelCall

\* raise: the run ends with exception e
Abort(e) == pc' = "aborted" /\ err' = e

\* logging.info / logging.debug
Emit(l) == log' = Append(log, l)

\* ---------------------------------------------------------------- __main__
\* assert pyro.__version__.startswith("1.6.0"); then the arguments are parsed
VersionAssert ==
    /\ pc = "start"
    /\ IF versionOk
         THEN pc' = "backend" /\ err' = err
         ELSE Abort("AssertionError")
    /\ UNCHANGED << names, models, versionOk, args, data, backend, model, seq,
                    setup, fad, obj, step, nSteps, log, evals, mcall >>

ChooseBackend_AlwaysPyro ==
    /\ pc = "backend"
    /\ backend' = "pyro"
    /\ pc' = "main"
    /\ UNCHANGED << names, models, versionOk, args, data, err, model, seq,
                    setup, fad, obj, step, nSteps, log, evals, mcall >>

\* if args.funsor: PYRO_BACKEND = "contrib.funsor" else "pyro"; with pyro_backend(...): main(args)
ChooseBackend ==
    /\ pc = "backend"
    /\ backend' = IF args.funsor THEN "contrib.funsor" ELSE "pyro"
    /\ pc' = "main"
    /\ UNCHANGED << names, models, versionOk, args, data, err, model, seq,
                    setup, fad, obj, step, nSteps, log, evals, mcall >>

\* -------------------------------------------------------------------- main
\* logging.info("Loading data"); data = poly.load_data(...)
LoadData ==
    /\ pc = "main"
    /\ Emit(Line("loading", -1, 0))
    /\ setup' = [setup EXCEPT !.loaded = TRUE]
    /\ pc' = "select"
    /\ UNCHANGED << names, models, versionOk, args, data, backend, err, model, seq,
                    fad, obj, step, nSteps, evals, mcall >>

\* logging.info("-" * 40); model = models[args.model]
SelectModel ==
    /\ pc = "select"
    /\ Emit(Line("dashes", -1, 0))
    /\ IF args.model \in DOMAIN models
         THEN /\ model' = [fn |-> models[args.model], partial |-> FALSE]
              /\ pc' = "prepare"
              /\ err' = err
         ELSE /\ Abort("KeyError")
              /\ model' = model
    /\ UNCHANGED << names, models, versionOk, args, data, backend, seq,
                    setup, fad, obj, step, nSteps, evals, mcall >>

\* sequences[:, : args.truncate] leaves min(T, truncate) time steps
TruncateTime(T, m) == Min(T, m)

\* lines 131-149: the training split, its truncation, num_observations, seed, store
PrepareTrain ==
    /\ pc = "prepare"
    /\ Emit(Line("training_on", -1, 0))
    /\ LET lens == IF args.truncate # 0
                     THEN Clamp(data.train.lengths, args.truncate)
                     ELSE data.train.lengths
           T == IF args.truncate # 0
                  THEN TruncateTime(data.train.T, args.truncate)
                  ELSE data.train.T
       IN seq' = [T |-> T, lengths |-> lens, nobs |-> SumSeq(lens)]
    /\ setup' = [setup EXCEPT !.seeded = TRUE, !.cleared = TRUE]
    /\ pc' = "guide"
    /\ UNCHANGED << names, models, versionOk, args, data, backend, err, model,
                    fad, obj, step, nSteps, evals, mcall >>

\* guide = AutoDelta(handlers.block(model, ...))
BuildGuide ==
    /\ pc = "guide"
    /\ setup' = [setup EXCEPT !.guide = TRUE]
    /\ pc' = "shapes"
    /\ UNCHANGED << names, models, versionOk, args, data, backend, err, model, seq,
                    fad, obj, step, nSteps, log, evals, mcall >>

\* lines 163-168
FirstAvailableDim(m) ==
    IF m = K0 THEN -2 ELSE IF m = K7 THEN -4 ELSE -3

\* if args.print_shapes: ... logging.info(model_trace.format_shapes())
PrintShapes ==
    /\ pc = "shapes"
    /\ IF args.print_shapes
         THEN /\ fad' = FirstAvailableDim(args.model)
              /\ Emit(Line("shapes", -1, 0))
         ELSE /\ fad' = fad
              /\ log' = log
    /\ pc' = "bind"
    /\ UNCHANGED << names, models, versionOk, args, data, backend, err, model, seq,
                    setup, obj, step, nSteps, evals, mcall >>

\* model = functools.partial(model, args=args); guide = ...; optimizer = optim.Adam(...)
BindArgs ==
    /\ pc = "bind"
    /\ model' = [model EXCEPT !.partial = TRUE]
    /\ pc' = "objective"
    /\ UNCHANGED << names, models, versionOk, args, data, backend, err, seq,
                    setup, fad, obj, step, nSteps, log, evals, mcall >>

JitTmcUnsupported_IgnoresFunsor(a) == a.jit

\* if args.jit and not args.funsor: raise NotImplementedError (inside `if args.tmc`)
JitTmcUnsupported(a) == a.jit /\ ~a.funsor

\* `model is model_0`: the local `model` against the module-level function object
IsModel0(m) == ~m.partial /\ m.fn = ModelPrefix \o K0

\* max_plate_nesting=1 if model is model_0 else 2
TmcPlateNesting(m) == IF IsModel0(m) THEN 1 ELSE 2

\* lines 206-211
EnumPlateNesting(k) == IF k = K0 THEN 1 ELSE IF k = K7 THEN 3 ELSE 2

\* lines 187, 199-205
ElboClass(a) ==
    IF a.tmc
      THEN IF a.jit THEN "JitTraceTMC_ELBO" ELSE "TraceTMC_ELBO"
      ELSE IF a.model = K7
             THEN IF a.jit THEN "JitTraceMarkovEnum_ELBO" ELSE "TraceMarkovEnum_ELBO"
             ELSE IF a.jit THEN "JitTraceEnum_ELBO" ELSE "TraceEnum_ELBO"

\* lines 184-220: the objective, the SVI object, and the "Step\tLoss" header
ChooseObjective ==
    /\ pc = "objective"
    /\ IF args.tmc
         THEN IF JitTmcUnsupported(args)
                THEN /\ Abort("NotImplementedError")
                     /\ UNCHANGED << obj, step, log >>
                ELSE IF (ModelPrefix \o K0) \notin names
                       \* evaluating the global name model_0
                       THEN /\ Abort("NameError")
                            /\ obj' = [obj EXCEPT !.cls = ElboClass(args)]
                            /\ UNCHANGED << step, log >>
                       ELSE /\ obj' = [cls |-> ElboClass(args),
                                       mpn |-> TmcPlateNesting(model),
                                       nElbo |-> obj.nElbo + 1,
                                       nSvi |-> obj.nSvi + 1,
                                       onTmc |-> TRUE]
                            /\ Emit(Line("header", -1, 0))
                            /\ step' = 0
                            /\ pc' = "train"
                            /\ err' = err
         ELSE IF args.model = K7 /\ ~args.funsor
                THEN /\ Abort("AssertionError")
                     /\ UNCHANGED << obj, step, log >>
                ELSE /\ obj' = [cls |-> ElboClass(args),
                                mpn |-> EnumPlateNesting(args.model),
                                nElbo |-> obj.nElbo + 1,
                                nSvi |-> obj.nSvi + 1,
                                onTmc |-> FALSE]
                     /\ Emit(Line("header", -1, 0))
                     /\ step' = 0
                     /\ pc' = "train"
                     /\ err' = err
    /\ UNCHANGED << names, models, versionOk, args, data, backend, model, seq,
                    setup, fad, nSteps, evals, mcall >>

\* for step in range(args.num_steps): loss = svi.step(sequences, lengths, ...)
TrainStep ==
    /\ pc = "train"
    /\ step < args.num_steps
    /\ nSteps' = nSteps + 1
    /\ evals' = Append(evals, [kind |-> "step", T |-> seq.T,
                               lengths |-> seq.lengths, nobs |-> -1])
    /\ pc' = "log_step"
    /\ UNCHANGED << names, models, versionOk, args, data, backend, err, model, seq,
                    setup, fad, obj, step, log, mcall >>

\* logging.info("{: >5d}\t{}".format(step, loss / num_observations))
LogStep ==
    /\ pc = "log_step"
    /\ Emit(Line("step_loss", step, seq.nobs))
    /\ evals' = [evals EXCEPT ![Len(evals)].nobs = seq.nobs]
    /\ step' = step + 1
    /\ pc' = "train"
    /\ UNCHANGED << names, models, versionOk, args, data, backend, err, model, seq,
                    setup, fad, obj, nSteps, mcall >>

\* range(args.num_steps) is exhausted; lines 225-228
EndTraining ==
    /\ pc = "train"
    /\ step >= args.num_steps
    /\ IF args.jit /\ args.time_compilation
         THEN Emit(Line("compile_time", -1, 0))
         ELSE log' = log
    /\ pc' = "eval_train"
    /\ UNCHANGED << names, models, versionOk, args, data, backend, err, model, seq,
                    setup, fad, obj, step, nSteps, evals, mcall >>

\* train_loss = elbo.loss(...); logging.info("training loss = ...")
EvalTrain ==
    /\ pc = "eval_train"
    /\ evals' = Append(evals, [kind |-> "train", T |-> seq.T,
                               lengths |-> seq.lengths, nobs |-> seq.nobs])
    /\ Emit(Line("train_loss", -1, seq.nobs))
    /\ pc' = "prepare_test"
    /\ UNCHANGED << names, models, versionOk, args, data, backend, err, model, seq,
                    setup, fad, obj, step, nSteps, mcall >>

\* lines 243-251: the test split; only its lengths are clamped
PrepareTest ==
    /\ pc = "prepare_test"
    /\ log' = log \o << Line("dashes", -1, 0), Line("evaluating", -1, 0) >>
    /\ LET lens == IF args.truncate # 0
                     THEN Clamp(data.test.lengths, args.truncate)
                     ELSE data.test.lengths
       IN seq' = [T |-> data.test.T, lengths |-> lens, nobs |-> SumSeq(lens)]
    /\ pc' = "eval_test"
    /\ UNCHANGED << names, models, versionOk, args, data, backend, err, model,
                    setup, fad, obj, step, nSteps, evals, mcall >>

\* test_loss = elbo.loss(...); logging.info("test loss = ...")
EvalTest ==
    /\ pc = "eval_test"
    /\ evals' = Append(evals, [kind |-> "test", T |-> seq.T,
                               lengths |-> seq.lengths, nobs |-> seq.nobs])
    /\ Emit(Line("test_loss", -1, seq.nobs))
    /\ pc' = "capacity"
    /\ UNCHANGED << names, models, versionOk, args, data, backend, err, model, seq,
                    setup, fad, obj, step, nSteps, mcall >>

\* capacity = sum(...); logging.info("model_{} capacity = {} parameters")
LogCapacity ==
    /\ pc = "capacity"
    /\ Emit(Line("capacity", -1, 0))
    /\ pc' = "done"
    /\ UNCHANGED << names, models, versionOk, args, data, backend, err, model, seq,
                    setup, fad, obj, step, nSteps, evals, mcall >>

\* ----------------------------------------------------------------- model()
Site(name, t, parent, idx, val) ==
    [name |-> name, t |-> t, parent |-> parent, idx |-> idx, val |-> val]

\* lines 86-100: the global sites, z_prev = None (-1), and the choice of the loop
ModelEnter ==
    /\ pc = "m_enter"
    /\ mcall' = [mcall EXCEPT
                   !.sites = << Site("pi", -1, "rho", -1, -1),
                                Site("A", -1, "alpha", -1, -1),
                                Site("lamda", -1, "a,b", -1, -1),
                                Site("mu", -1, "m,beta,lamda", -1, -1) >>,
                   !.z_prev = -1,
                   !.t = 0]
    /\ pc' = IF mcall.vectorized THEN "m_vectorized" ELSE "m_loop"
    /\ UNCHANGED mainVars

\* pi if isinstance(t, int) and t < 1 else A[z_prev]   (t is an int in the sequential loop)
ZParent(t) == IF t < 1 THEN "pi" ELSE "A"

\* lines 101-106: the next t of range(data.shape[1]) and the site z_t
SampleZ ==
    /\ pc = "m_loop"
    /\ mcall.t < mcall.T
    /\ \E v \in 0..(NumStates - 1) :
          mcall' = [mcall EXCEPT
                      !.sites = Append(@, Site("z", mcall.t, ZParent(mcall.t),
                                               IF ZParent(mcall.t) = "A"
                                                 THEN mcall.z_prev ELSE -1,
                                               v))]
    /\ pc' = "m_obs"
    /\ UNCHANGED mainVars

\* the value bound to z_curr: the last site created
ZCurr == mcall.sites[Len(mcall.sites)].val

\* lines 107-112: obs=data[t] indexes the first axis (size data.shape[0]); then x_t
SampleX ==
    /\ pc = "m_obs"
    /\ IF mcall.t < mcall.N
         THEN /\ mcall' = [mcall EXCEPT
                             !.sites = Append(@, Site("x", mcall.t, "mu,lamda", ZCurr, -1)),
                             !.z_prev = ZCurr,
                             !.t = @ + 1]
              /\ pc' = "m_loop"
              /\ err' = err
         ELSE /\ Abort("IndexError")
              /\ mcall' = mcall
    /\ UNCHANGED << names, models, versionOk, args, data, backend, model, seq,
                    setup, fad, obj, step, nSteps, log, evals >>

\* range(data.shape[1]) is exhausted: the plates close and model returns
ModelReturn ==
    /\ pc = "m_loop"
    /\ mcall.t >= mcall.T
    /\ pc' = "m_returned"
    /\ UNCHANGED << mainVars, mcall >>

\* -------------------------------------------------------------------- Next
Next ==
    \/ VersionAssert
    \/ ChooseBackend
    \/ LoadData
    \/ SelectModel
    \/ PrepareTrain
    \/ BuildGuide
    \/ PrintShapes
    \/ BindArgs
    \/ ChooseObjective
    \/ TrainStep
    \/ LogStep
    \/ EndTraining
    \/ EvalTrain
    \/ PrepareTest
    \/ EvalTest
    \/ LogCapacity
    \/ ModelEnter
    \/ SampleZ
    \/ SampleX
    \/ ModelReturn

Spec == Init /\ [][Next]_vars

\* ============================================================== properties
\* The run is one of the file as shipped (no model_<k> is defined).
Shipped == names = ShippedGlobals

\* main(args) has been entered.
InMain == pc = "main" \/ setup.loaded

Terminated == pc \in {"done", "aborted"}

StepLines == SelectSeq(log, LAMBDA l : l.kind = "step_loss")

LossLines == SelectSeq(log, LAMBDA l : l.kind \in {"step_loss", "train_loss", "test_loss"})

\* C1: every run of main that does not hit the jit/TMC check goes once through
\* every stage in order (data, model and guide, objective and SVI, training
\* loop, training loss, test loss) and ends with the parameter-count line.
\* Stated for the file as shipped.
C1_LinearFlow ==
    (Shipped /\ InMain /\ Terminated /\ err # "NotImplementedError") =>
        /\ pc = "done"
        /\ setup.loaded /\ model.fn # <<>> /\ setup.guide
        /\ obj.nElbo = 1 /\ obj.nSvi = 1
        /\ nSteps = args.num_steps
        /\ Len(evals) = args.num_steps + 2
        /\ evals[Len(evals) - 1].kind = "train"
        /\ evals[Len(evals)].kind = "test"
        /\ log[Len(log)].kind = "capacity"

\* C2: with --jit and --tmc main ends with NotImplementedError, and no ELBO, no
\* SVI, no svi.step and no loss line has been produced.  Stated for the file
\* as shipped.
C2_JitTmcAborts ==
    (Shipped /\ InMain /\ Terminated /\ args.jit /\ args.tmc) =>
        /\ err = "NotImplementedError"
        /\ obj.nElbo = 0 /\ obj.nSvi = 0
        /\ nSteps = 0
        /\ LossLines = <<>>

C4_TrainingLoop ==
    (Shipped /\ InMain /\ Terminated /\ err # "NotImplementedError") =>
        /\ nSteps = args.num_steps
        /\ Len(StepLines) = args.num_steps
        /\ \A i \in 1..Len(StepLines) : StepLines[i].step = i - 1

\* C5: before main starts no backend is in force; from the moment main is
\* entered to the end of the run the backend is "contrib.funsor" when --funsor
\* is set and "pyro" otherwise.
C5_BackendByFunsor ==
    /\ InMain => backend = (IF args.funsor THEN "contrib.funsor" ELSE "pyro")
    /\ ~InMain => backend = "unset"

C5_Witness ==
    Shipped /\ InMain /\ Terminated /\ args.funsor /\ backend = "contrib.funsor"

\* the class C6 names for the flags
C6_Class ==
    IF args.tmc
      THEN IF args.jit THEN "JitTraceTMC_ELBO" ELSE "TraceTMC_ELBO"
      ELSE IF args.model = K7
             THEN IF args.jit THEN "JitTraceMarkovEnum_ELBO" ELSE "TraceMarkovEnum_ELBO"
             ELSE IF args.jit THEN "JitTraceEnum_ELBO" ELSE "TraceEnum_ELBO"

\* C6: a run that is not stopped by the jit/TMC check or by the funsor
\* requirement of model "7" constructs exactly one ELBO, of the class the flags
\* determine, and exactly one SVI, built on the infer_config-wrapped model
\* exactly in the tmc branch.  Stated for the file as shipped.
C6_OneObjective ==
    (/\ Shipped /\ InMain /\ Terminated
     /\ ~(args.tmc /\ args.jit /\ ~args.funsor)
     /\ ~(~args.tmc /\ args.model = K7 /\ ~args.funsor)) =>
        /\ obj.nElbo = 1 /\ obj.nSvi = 1
        /\ obj.cls = C6_Class
        /\ obj.onTmc = args.tmc

TimeSites == SelectSeq(mcall.sites, LAMBDA s : s.name \in {"z", "x"})

\* C7: a sequential call of model() ends with the sites z_0, x_0, ...,
\* z_{T-1}, x_{T-1} created once each in this order; z_0 is drawn from pi,
\* z_t (t > 0) from A indexed by the value of z_{t-1}, never by None; x_t is
\* indexed by the value of z_t.
C7_MarkovChain ==
    (mcall.N > 0 /\ ~mcall.vectorized /\ (pc = "m_returned" \/ Terminated)) =>
        /\ Len(TimeSites) = 2 * mcall.T
        /\ \A t \in 0..(mcall.T - 1) :
              LET z == TimeSites[2 * t + 1]
                  x == TimeSites[2 * t + 2]
              IN /\ z.name = "z" /\ z.t = t
                 /\ x.name = "x" /\ x.t = t
                 /\ (z.parent = "pi") <=> (t = 0)
                 /\ t > 0 => (z.parent = "A" /\ z.idx # -1
                               /\ z.idx = TimeSites[2 * t - 1].val)
                 /\ x.idx = z.val

\* C8: the registry holds key k exactly when model_<k> is a module-level name,
\* mapped to that function; and once main is past the lookup with an args.model
\* that has no such name, it has ended with KeyError, the data loaded, and the
\* seed not set, the parameter store not cleared, no guide built, no step run.
C8_RegistryAndKeyError ==
    /\ \A k \in DOMAIN models :
          (ModelPrefix \o k) \in names /\ models[k] = ModelPrefix \o k
    /\ \A k \in {K0, K1, K7} : (ModelPrefix \o k) \in names => k \in DOMAIN models
    /\ (setup.loaded /\ pc # "select" /\ (ModelPrefix \o args.model) \notin names) =>
          /\ pc = "aborted" /\ err = "KeyError"
          /\ ~setup.seeded /\ ~setup.cleared /\ ~setup.guide
          /\ nSteps = 0 /\ evals = <<>>

C8_Witness ==
    Shipped /\ args.model = K1 /\ pc = "aborted" /\ err = "KeyError" /\ setup.loaded

SplitLengths(kind) == IF kind = "test" THEN data.test.lengths ELSE data.train.lengths

=============================================================================
